---- MODULE Spec2Model ----
(***************************************************************************)
(* A model of lcd_toggle_calc.py: the validated data model (Region,        *)
(* Params), the activity calculator (ActivityTool) and the run of main.    *)
(*                                                                         *)
(* Numbers.  Python's int and float values are modelled as exact rationals *)
(* (m / d) * 10^e kept in a canonical form, so that equal values are equal *)
(* records: m and d are coprime, neither is a multiple of 5 (e is the      *)
(* power of 5 in the value), and zero is 0/1 * 10^0.  float("inf") is the  *)
(* record with d = 0.  Rounding of IEEE doubles is not modelled: a decimal *)
(* literal of the source stands for its decimal value, and the inputs      *)
(* drawn around the 0.001 tolerance are binary fractions, which a double   *)
(* holds exactly.                                                          *)
(***************************************************************************)
EXTENDS Integers, Sequences, FiniteSets, TLC

VARIABLES
    p,            \* the Params object (after __post_init__)
    errors,       \* what p.validate() returned: <<>> before the call, <<list>> after it
    res,          \* what ActivityTool(p).compute() returned
    rate,         \* toggles_per_sec handed to the two lifetime helpers
    years_list,   \* years_list handed to lifetime_quadrillions
    life,         \* what lifetime_quadrillions returned
    years_to_1q,  \* what years_to_one_quadrillion returned
    pc,           \* position of the run
    args,         \* main: the parsed command line
    regions,      \* main: the local variable regions
    exit_status,  \* main: the process's exit status, -1 while running
    calls         \* main: the calls made so far, in order

vars == <<p, errors, res, rate, years_list, life, years_to_1q,
          pc, args, regions, exit_status, calls>>

(***************************************************************************)
(* Bounds of the model.                                                    *)
(***************************************************************************)
MaxRegions == 2

(***************************************************************************)
(* Exact arithmetic.                                                       *)
(***************************************************************************)
Abs(x) == IF x < 0 THEN -x ELSE x

Min(a, b) == IF a <= b THEN a ELSE b

RECURSIVE GCD(_, _)
GCD(a, b) == IF b = 0 THEN a ELSE GCD(b, a % b)

RECURSIVE Pow10(_)
Pow10(n) == IF n = 0 THEN 1 ELSE 10 * Pow10(n - 1)

Zero == [m |-> 0, d |-> 1, e |-> 0]

Inf == [m |-> 1, d |-> 0, e |-> 0]

IsInf(x) == x.d = 0

\* (m / d) * 10^e for coprime m # 0 and d > 0, with every factor 5 moved into e
RECURSIVE Canon(_, _, _)
Canon(m, d, e) ==
    IF m % 5 = 0
    THEN IF m % 10 = 0 THEN Canon(m \div 10, d, e + 1) ELSE Canon(m \div 5, d * 2, e + 1)
    ELSE IF d % 5 = 0
    THEN IF d % 10 = 0 THEN Canon(m, d \div 10, e - 1) ELSE Canon(m * 2, d \div 5, e - 1)
    ELSE [m |-> m, d |-> d, e |-> e]

\* m / d * 10^e for integers m, d with d > 0
Norm(m, d, e) ==
    IF m = 0 THEN Zero
    ELSE LET g == GCD(Abs(m), d) IN Canon(m \div g, d \div g, e)

\* the decimal literal n * 10^e, e.g. 148.5 = Dec(1485, -1)
Dec(n, e) == Norm(n, 1, e)

FromInt(n) == Norm(n, 1, 0)

RNeg(a) == [a EXCEPT !.m = -a.m]

RMul(a, b) ==
    IF a.m = 0 \/ b.m = 0 THEN Zero
    ELSE LET g1 == GCD(Abs(a.m), b.d)
             g2 == GCD(Abs(b.m), a.d)
         IN  Norm((a.m \div g1) * (b.m \div g2), (a.d \div g2) * (b.d \div g1), a.e + b.e)

\* a / b, for b # 0
RDiv(a, b) ==
    IF a.m = 0 THEN Zero
    ELSE LET g1 == GCD(Abs(a.m), Abs(b.m))
             g2 == GCD(a.d, b.d)
             sg == IF b.m < 0 THEN -1 ELSE 1
         IN  Norm(sg * (a.m \div g1) * (b.d \div g2),
                  (a.d \div g2) * (Abs(b.m) \div g1), a.e - b.e)

RAdd(a, b) ==
    IF a.m = 0 THEN b
    ELSE IF b.m = 0 THEN a
    ELSE LET e == Min(a.e, b.e)
             g == GCD(a.d, b.d)
             na == a.m * Pow10(a.e - e)
             nb == b.m * Pow10(b.e - e)
         IN  Norm(na * (b.d \div g) + nb * (a.d \div g), (a.d \div g) * b.d, e)

RSub(a, b) == RAdd(a, RNeg(b))

RAbs(a) == [a EXCEPT !.m = Abs(a.m)]

\* a < b
RLt(a, b) ==
    IF a.m < 0 /\ b.m >= 0 THEN TRUE
    ELSE IF a.m = 0 THEN b.m > 0
    ELSE IF a.m > 0 /\ b.m <= 0 THEN FALSE
    ELSE RSub(a, b).m < 0

\* a <= b
RLe(a, b) == ~RLt(b, a)

(***************************************************************************)
(* Optional values: None, or Some(x).                                      *)
(***************************************************************************)
None == <<>>

Some(x) == <<x>>

(***************************************************************************)
(* Region and Params.                                                      *)
(***************************************************************************)
Region(alpha, c, h) == [alpha |-> alpha, c |-> c, h |-> h]

\* An error message, by the field it names; region is i+1 of "Region {i+1}: "
\* and 0 for a message of Params.validate's own.
Err(field) == [field |-> field, region |-> 0]

\* 0 <= x <= hi
InRange(x, hi) == RLe(Zero, x) /\ RLe(x, hi)

\* Region.validate with the upper bound of h exclusive
Region_validate_exclusive(self, bus_width) ==
    (IF ~InRange(self.alpha, FromInt(1)) THEN <<Err("alpha")>> ELSE <<>>)
    \o (IF ~InRange(self.c, FromInt(1)) THEN <<Err("c")>> ELSE <<>>)
    \o (IF ~(RLe(Zero, self.h) /\ RLt(self.h, FromInt(bus_width)))
        THEN <<Err("h")>> ELSE <<>>)

Region_validate(self, bus_width) ==
    (IF ~InRange(self.alpha, FromInt(1)) THEN <<Err("alpha")>> ELSE <<>>)
    \o (IF ~InRange(self.c, FromInt(1)) THEN <<Err("c")>> ELSE <<>>)
    \o (IF ~InRange(self.h, FromInt(bus_width)) THEN <<Err("h")>> ELSE <<>>)

\* Params.__post_init__ on the constructor's arguments: regions and num_pins
\* are None or Some(value).
DefaultRegions ==
    << Region(Dec(30, -2), Zero, Zero),
       Region(Dec(50, -2), Dec(10, -2), FromInt(8)),
       Region(Dec(20, -2), FromInt(1), FromInt(12)) >>

Params(W, f_p_MHz, H, V, f_r, regs, rho_override, num_pins) ==
    [ W |-> W, f_p_MHz |-> f_p_MHz, H |-> H, V |-> V, f_r |-> f_r,
      regions |-> IF regs = None THEN DefaultRegions ELSE regs[1],
      rho_override |-> rho_override,
      num_pins |-> IF num_pins = None THEN W ELSE num_pins[1] ]

RECURSIVE SumAlpha(_)
SumAlpha(rs) ==
    IF rs = <<>> THEN Zero
    ELSE RAdd(SumAlpha(SubSeq(rs, 1, Len(rs) - 1)), rs[Len(rs)].alpha)

\* regions = [Region(r.alpha / alpha_sum, r.c, r.h) for r in regions]
Normalized(rs) ==
    [i \in 1..Len(rs) |-> [rs[i] EXCEPT !.alpha = RDiv(rs[i].alpha, SumAlpha(rs))]]

\* the tolerance mistyped as 0.0001
AlphaSumOff_tight(rs) == RLt(Dec(1, -4), RAbs(RSub(SumAlpha(rs), FromInt(1))))

\* abs(alpha_sum - 1.0) > 0.001
AlphaSumOff(rs) == RLt(Dec(1, -3), RAbs(RSub(SumAlpha(rs), FromInt(1))))

\* the loop over enumerate(self.regions)
RECURSIVE RegionErrors(_, _, _)
RegionErrors(rs, W, i) ==
    IF i > Len(rs) THEN <<>>
    ELSE [k \in 1..Len(Region_validate(rs[i], W)) |->
             [Region_validate(rs[i], W)[k] EXCEPT !.region = i]]
         \o RegionErrors(rs, W, i + 1)

ActiveRate(self) == RMul(FromInt(self.H * self.V), self.f_r)

PixelClockHz(self) == RMul(self.f_p_MHz, FromInt(1000000))

\* the sanity check against the pixels of one frame, the refresh rate forgotten
ClockTooSlow_per_frame(self) == RLt(PixelClockHz(self), FromInt(self.H * self.V))

\* pixel_clock_hz < active_rate
ClockTooSlow(self) == RLt(PixelClockHz(self), ActiveRate(self))

\* the checks of the scalar fields
ScalarErrors(self) ==
    (IF self.W <= 0 THEN <<Err("W")>> ELSE <<>>)
    \o (IF RLe(self.f_p_MHz, Zero) THEN <<Err("f_p")>> ELSE <<>>)
    \o (IF self.H <= 0 THEN <<Err("H")>> ELSE <<>>)
    \o (IF self.V <= 0 THEN <<Err("V")>> ELSE <<>>)
    \o (IF RLe(self.f_r, Zero) THEN <<Err("f_r")>> ELSE <<>>)
    \o (IF RLt(self.rho_override, Zero) THEN <<Err("rho_override")>> ELSE <<>>)
    \o (IF self.num_pins <= 0 THEN <<Err("num_pins")>> ELSE <<>>)

\* "Validate regions"
RegionListErrors(self) ==
    IF self.regions = <<>> THEN <<Err("regions")>>
    ELSE (IF AlphaSumOff(self.regions) THEN <<Err("alpha_sum")>> ELSE <<>>)
         \o RegionErrors(self.regions, self.W, 1)

\* "Sanity check: pixel clock should be >= active pixel rate"
ClockErrors(self) == IF ClockTooSlow(self) THEN <<Err("pixel_clock")>> ELSE <<>>

\* validate stopping at the first group of checks that fails
Params_validate_failfast(self) ==
    IF ScalarErrors(self) # <<>> THEN ScalarErrors(self)
    ELSE IF RegionListErrors(self) # <<>> THEN RegionListErrors(self)
    ELSE ClockErrors(self)

Params_validate(self) == ScalarErrors(self) \o RegionListErrors(self) \o ClockErrors(self)

\* validate normalizing the alphas of self in place
Params_validate_self_normalizing(self) ==
    IF self.regions # <<>> /\ AlphaSumOff(self.regions) /\ SumAlpha(self.regions) # Zero
    THEN [self EXCEPT !.regions = Normalized(self.regions)]
    ELSE self

\* self after validate(): the body assigns no attribute of self or of a region
Params_validate_self(self) == self

(***************************************************************************)
(* ActivityTool.                                                           *)
(***************************************************************************)
\* sum(r.alpha * r.c * r.h for r in self.p.regions)
RECURSIVE SumFlips(_)
SumFlips(rs) ==
    IF rs = <<>> THEN Zero
    ELSE RAdd(SumFlips(SubSeq(rs, 1, Len(rs) - 1)),
              RMul(RMul(rs[Len(rs)].alpha, rs[Len(rs)].c), rs[Len(rs)].h))

\* the sum of c * h, not weighted by alpha
RECURSIVE SumFlipsUnweighted(_)
SumFlipsUnweighted(rs) ==
    IF rs = <<>> THEN Zero
    ELSE RAdd(SumFlipsUnweighted(SubSeq(rs, 1, Len(rs) - 1)),
              RMul(rs[Len(rs)].c, rs[Len(rs)].h))

H_avg_unweighted(self) == SumFlipsUnweighted(self.regions)

H_avg(self) == SumFlips(self.regions)

\* the division pixel_clock_hz / active_rate is evaluated, and by zero
RhoRaises(self) == ~RLt(Zero, self.rho_override) /\ ActiveRate(self) = Zero

Rho(self) ==
    IF RLt(Zero, self.rho_override) THEN self.rho_override
    ELSE RDiv(PixelClockHz(self), ActiveRate(self))

\* the toggle rate scaled by the blanking factor
TogglesSec_blanking(self) == RMul(RMul(ActiveRate(self), Rho(self)), H_avg(self))

TogglesSec(self) == RMul(ActiveRate(self), H_avg(self))

\* What compute() returns, or the exception it raises: the first division by
\* zero of the body, in the order of its statements.
ActivityTool_compute(self) ==
    IF RhoRaises(self) \/ self.W = 0 THEN [status |-> "ZeroDivisionError"]
    ELSE LET per_pin == RDiv(TogglesSec(self), FromInt(self.W))
         IN  [ status |-> "returned",
               H_avg |-> H_avg(self),
               active_rate |-> ActiveRate(self),
               pixel_clock_hz |-> PixelClockHz(self),
               rho |-> Rho(self),
               AF |-> RDiv(H_avg(self), FromInt(self.W)),
               toggles_sec |-> TogglesSec(self),
               per_pin |-> per_pin,
               total_pins_toggles |-> RMul(per_pin, FromInt(self.num_pins)),
               num_pins |-> self.num_pins ]

\* self.p after compute(): the body only reads self.p
ActivityTool_compute_self(self) == self

NotCalled == [status |-> "not called"]

SECONDS_PER_YEAR == 60 * 60 * 24 * 365

Range(seq) == {seq[i] : i \in DOMAIN seq}

\* the lifetime table without the factor y
lifetime_quadrillions_one_year(toggles_per_sec, years) ==
    [y \in Range(years) |->
        RDiv(RMul(toggles_per_sec, FromInt(SECONDS_PER_YEAR)), Dec(1, 15))]

\* the dict {y: ... for y in years_list}, as a function of its keys
lifetime_quadrillions(toggles_per_sec, years) ==
    [y \in Range(years) |->
        RDiv(RMul(RMul(toggles_per_sec, FromInt(SECONDS_PER_YEAR)), FromInt(y)),
             Dec(1, 15))]

\* the default of the parameter years_list
DefaultYears == <<1, 5, 10, 25, 50, 75, 100>>

\* the guard testing for zero only
years_to_one_quadrillion_zero_only(toggles_per_sec) ==
    IF toggles_per_sec = Zero THEN Inf
    ELSE RDiv(RDiv(Dec(1, 15), toggles_per_sec), FromInt(SECONDS_PER_YEAR))

years_to_one_quadrillion(toggles_per_sec) ==
    IF RLe(toggles_per_sec, Zero) THEN Inf
    ELSE RDiv(RDiv(Dec(1, 15), toggles_per_sec), FromInt(SECONDS_PER_YEAR))


(***************************************************************************)
(* Spec: validate() and compute() called on constructed configurations.    *)
(* The configurations are every combination of the scalar inputs with a    *)
(* few region lists, and every region list of at most MaxRegions regions   *)
(* with a few scalar combinations.                                         *)
(***************************************************************************)
WInputs == {0, 2, 24}

FpInputs == {Zero, FromInt(1), Dec(1485, -1)}

HInputs == {-1, 0, 1000, 1920}

VInputs == {0, 1000, 1080}

FrInputs == {Zero, FromInt(1), FromInt(60)}

RhoInputs == {FromInt(-1), Zero, Dec(15, -1)}

PinsInputs == {None, Some(0), Some(48)}

\* 511/1024 + 1/2 and 511/1024 + 257/512 are within 0.001 of 1; 1/2 + 257/512 is not
AlphaInputs ==
    {Dec(-5, -1), Zero, Norm(511, 1024, 0), Dec(5, -1), Norm(257, 512, 0),
     FromInt(1), Dec(15, -1)}

CInputs == {Dec(-5, -1), Zero, Dec(125, -3), FromInt(1), Dec(15, -1)}

HammingInputs == {FromInt(-1), Zero, FromInt(2), FromInt(3), FromInt(24), FromInt(25)}

\* 513/1024 + 1/2 is above 1 and within 0.001 of it
RegionInputs ==
    {Region(a, FromInt(1), FromInt(12)) : a \in AlphaInputs}
    \cup {Region(Dec(5, -1), c, FromInt(2)) : c \in CInputs}
    \cup {Region(Dec(5, -1), FromInt(1), h) : h \in HammingInputs}
    \cup {Region(Norm(513, 1024, 0), FromInt(1), FromInt(2))}

SeqsUpTo(S, n) == UNION {[1..k -> S] : k \in 0..n}

FewRegionLists ==
    { None, Some(<<>>), Some(<<Region(FromInt(1), FromInt(1), FromInt(12))>>),
      Some(<<Region(FromInt(1), FromInt(1), FromInt(12)),
             Region(FromInt(1), FromInt(1), FromInt(12))>>) }

ParamsInputs ==
    { Params(W, f, H, V, r, rs, rho, n) :
        W \in WInputs, f \in FpInputs, H \in HInputs, V \in VInputs, r \in FrInputs,
        rs \in FewRegionLists, rho \in RhoInputs, n \in PinsInputs }
    \cup
    { Params(W, Dec(1485, -1), 1000, 1000, FromInt(60), Some(rs), Zero, None) :
        W \in {2, 24}, rs \in SeqsUpTo(RegionInputs, MaxRegions) }

IdleLifetime ==
    /\ rate = Zero
    /\ years_list = <<>>
    /\ life = None
    /\ years_to_1q = None

IdleMain ==
    /\ args = None
    /\ regions = None
    /\ exit_status = -1
    /\ calls = <<>>

Init ==
    /\ p \in ParamsInputs
    /\ errors = None
    /\ res = NotCalled
    /\ pc = "api"
    /\ IdleLifetime
    /\ IdleMain

Validate ==
    /\ pc = "api"
    /\ errors = None
    /\ errors' = Some(Params_validate(p))
    /\ p' = Params_validate_self(p)
    /\ UNCHANGED <<res, rate, years_list, life, years_to_1q,
                   pc, args, regions, exit_status, calls>>

Compute ==
    /\ pc = "api"
    /\ res = NotCalled
    /\ res' = ActivityTool_compute(p)
    /\ p' = ActivityTool_compute_self(p)
    /\ UNCHANGED <<errors, rate, years_list, life, years_to_1q,
                   pc, args, regions, exit_status, calls>>

Next == Validate \/ Compute

Spec == Init /\ [][Next]_vars

(***************************************************************************)
(* SpecLifetime: the two static lifetime helpers called on a toggle rate.  *)
(***************************************************************************)
MaxYears == 3

RateInputs ==
    {FromInt(-1), Zero, Dec(5, -1), FromInt(1), FromInt(3), Dec(25, 5), Dec(15, 8)}

YearInputs == {1, 5, 10, 100}

DefaultParams ==
    Params(24, Dec(1485, -1), 1920, 1080, FromInt(60), None, Zero, None)

InitLifetime ==
    /\ rate \in RateInputs
    /\ years_list \in {None} \cup {Some(ys) : ys \in SeqsUpTo(YearInputs, MaxYears)}
    /\ life = None
    /\ years_to_1q = None
    /\ p = DefaultParams
    /\ errors = None
    /\ res = NotCalled
    /\ pc = "lifetime"
    /\ IdleMain

LifetimeQuadrillions ==
    /\ pc = "lifetime"
    /\ life = None
    /\ life' = Some(lifetime_quadrillions(rate,
                    IF years_list = None THEN DefaultYears ELSE years_list[1]))
    /\ UNCHANGED <<p, errors, res, rate, years_list, years_to_1q,
                   pc, args, regions, exit_status, calls>>

YearsToOneQuadrillion ==
    /\ pc = "lifetime"
    /\ years_to_1q = None
    /\ years_to_1q' = Some(years_to_one_quadrillion(rate))
    /\ UNCHANGED <<p, errors, res, rate, years_list, life,
                   pc, args, regions, exit_status, calls>>

NextLifetime == LifetimeQuadrillions \/ YearsToOneQuadrillion

SpecLifetime == InitLifetime /\ [][NextLifetime]_vars

(***************************************************************************)
(* SpecMain: one run of main(), from the parsed command line to the exit.  *)
(***************************************************************************)
Timing(H, V, f_p_MHz, f_r) == [H |-> H, V |-> V, f_p_MHz |-> f_p_MHz, f_r |-> f_r]

DISPLAY_PRESETS ==
    [ name \in {"720p60", "1080p60", "1080p30", "4k30", "4k60", "wvga", "xga", "wxga"} |->
        CASE name = "720p60" -> Timing(1280, 720, Dec(7425, -2), FromInt(60))
          [] name = "1080p60" -> Timing(1920, 1080, Dec(1485, -1), FromInt(60))
          [] name = "1080p30" -> Timing(1920, 1080, Dec(7425, -2), FromInt(30))
          [] name = "4k30" -> Timing(3840, 2160, FromInt(297), FromInt(30))
          [] name = "4k60" -> Timing(3840, 2160, FromInt(594), FromInt(60))
          [] name = "wvga" -> Timing(800, 480, Dec(333, -1), FromInt(60))
          [] name = "xga" -> Timing(1024, 768, FromInt(65), FromInt(60))
          [] name = "wxga" -> Timing(1280, 800, FromInt(71), FromInt(60)) ]

CONTENT_PRESETS ==
    [ name \in {"static", "desktop", "video", "worst"} |->
        CASE name = "static" ->
               << Region(Dec(95, -2), Zero, Zero),
                  Region(Dec(5, -2), Dec(10, -2), FromInt(4)),
                  Region(Zero, Zero, Zero) >>
          [] name = "desktop" ->
               << Region(Dec(30, -2), Zero, Zero),
                  Region(Dec(50, -2), Dec(10, -2), FromInt(8)),
                  Region(Dec(20, -2), FromInt(1), FromInt(12)) >>
          [] name = "video" ->
               << Region(Zero, Zero, Zero),
                  Region(Dec(10, -2), Dec(5, -1), FromInt(6)),
                  Region(Dec(90, -2), FromInt(1), FromInt(12)) >>
          [] name = "worst" ->
               << Region(Zero, Zero, Zero),
                  Region(Zero, Zero, Zero),
                  Region(FromInt(1), FromInt(1), FromInt(24)) >> ]

\* "Build display parameters": the preset's timing, or the command line's
DisplayOf(a) ==
    IF a.preset # None THEN DISPLAY_PRESETS[a.preset[1]]
    ELSE Timing(a.H, a.V, a.fp, a.fr)

\* "Build content regions"
RegionsOf(a) ==
    IF a.content # None
    THEN IF a.content[1] = "worst"
         THEN [CONTENT_PRESETS["worst"] EXCEPT ![3].h = FromInt(a.W)]
         ELSE CONTENT_PRESETS[a.content[1]]
    ELSE << Region(a.a1, a.c1, a.h1), Region(a.a2, a.c2, a.h2), Region(a.a3, a.c3, a.h3) >>

\* main going on after reporting the errors
ExitOnErrors_never(errs) == FALSE

\* if errors: ... sys.exit(1)
ExitOnErrors(errs) == errs # <<>>

ArgsInputs ==
    [ list_presets : BOOLEAN,
      preset : {None, Some("1080p60"), Some("1080p30"), Some("4k60"), Some("wvga")},
      content : {None} \cup {Some(n) : n \in DOMAIN CONTENT_PRESETS},
      W : {0, 16, 24},
      fp : {FromInt(1), Dec(1485, -1)},
      H : {1920}, V : {1080}, fr : {FromInt(60)},
      rho : {FromInt(-1), Zero},
      pins : {None, Some(196)},
      a1 : {Zero, Dec(30, -2)}, c1 : {Zero}, h1 : {Zero},
      a2 : {Zero, Dec(50, -2)}, c2 : {Dec(10, -2)}, h2 : {FromInt(8)},
      a3 : {Dec(-5, -1), Zero, Dec(20, -2), Dec(12, -1)}, c3 : {FromInt(1)},
      h3 : {FromInt(12)} ]

InitMain ==
    /\ args \in {Some(a) : a \in ArgsInputs}
    /\ pc = "main"
    /\ regions = None
    /\ exit_status = -1
    /\ calls = <<>>
    /\ p = DefaultParams
    /\ errors = None
    /\ res = NotCalled
    /\ IdleLifetime

\* --list-presets: print the tables and return
ListPresets ==
    /\ pc = "main"
    /\ args[1].list_presets
    /\ pc' = "exited"
    /\ exit_status' = 0
    /\ UNCHANGED <<p, errors, res, rate, years_list, life, years_to_1q,
                   args, regions, calls>>

BuildRegions ==
    /\ pc = "main"
    /\ ~args[1].list_presets
    /\ regions' = Some(RegionsOf(args[1]))
    /\ pc' = "normalize"
    /\ UNCHANGED <<p, errors, res, rate, years_list, life, years_to_1q,
                   args, exit_status, calls>>

\* "Normalize alphas if they don't sum to 1"
Normalize ==
    /\ pc = "normalize"
    /\ IF RLe(SumAlpha(regions[1]), Zero)
       THEN /\ pc' = "exited"
            /\ exit_status' = 1
            /\ UNCHANGED regions
       ELSE /\ regions' = IF AlphaSumOff(regions[1])
                          THEN Some(Normalized(regions[1])) ELSE regions
            /\ pc' = "validate"
            /\ UNCHANGED exit_status
    /\ UNCHANGED <<p, errors, res, rate, years_list, life, years_to_1q, args, calls>>

\* "Create parameters and validate"
CreateAndValidate ==
    /\ pc = "validate"
    /\ LET a == args[1]
           d == DisplayOf(a)
           q == Params(a.W, d.f_p_MHz, d.H, d.V, d.f_r, regions, a.rho, a.pins)
       IN  /\ p' = Params_validate_self(q)
           /\ errors' = Some(Params_validate(q))
           /\ calls' = Append(calls, "validate")
           /\ IF ExitOnErrors(Params_validate(q))
              THEN pc' = "exited" /\ exit_status' = 1
              ELSE pc' = "compute" /\ UNCHANGED exit_status
    /\ UNCHANGED <<res, rate, years_list, life, years_to_1q, args, regions>>

\* "Compute and display"; an exception nobody catches ends the run with status 1
ComputeResults ==
    /\ pc = "compute"
    /\ res' = ActivityTool_compute(p)
    /\ p' = ActivityTool_compute_self(p)
    /\ calls' = Append(calls, "compute")
    /\ IF ActivityTool_compute(p).status = "returned"
       THEN pc' = "print" /\ UNCHANGED exit_status
       ELSE pc' = "exited" /\ exit_status' = 1
    /\ UNCHANGED <<errors, rate, years_list, life, years_to_1q, args, regions>>

\* print_results(p, res): prints, and changes nothing
PrintResults ==
    /\ pc = "print"
    /\ calls' = Append(calls, "print_results")
    /\ pc' = "exited"
    /\ exit_status' = 0
    /\ UNCHANGED <<p, errors, res, rate, years_list, life, years_to_1q, args, regions>>

NextMain ==
    \/ ListPresets
    \/ BuildRegions
    \/ Normalize
    \/ CreateAndValidate
    \/ ComputeResults
    \/ PrintResults

SpecMain == InitMain /\ [][NextMain]_vars

(***************************************************************************)
(* The claims.                                                             *)
(***************************************************************************)
HasErr(errs, field, region) ==
    \E i \in DOMAIN errs : errs[i] = [field |-> field, region |-> region]

\* |sum of the alphas - 1| > 0.001
SumFarFromOne(rs) == RLt(Dec(1, -3), RAbs(RSub(SumAlpha(rs), FromInt(1))))

\* the pixel clock in Hz is below H * V * f_r
ClockBelowActiveRate(q) ==
    RLt(RMul(q.f_p_MHz, Dec(1, 6)), RMul(FromInt(q.H * q.V), q.f_r))

Validated == pc = "api" /\ errors # None

Computed == pc = "api" /\ res.status # "not called"

C1_AllInRange ==
    /\ p.W > 0 /\ RLt(Zero, p.f_p_MHz) /\ p.H > 0 /\ p.V > 0
    /\ RLt(Zero, p.f_r) /\ p.num_pins > 0 /\ RLe(Zero, p.rho_override)
    /\ p.regions # <<>>
    /\ \A i \in DOMAIN p.regions :
          /\ RLe(Zero, p.regions[i].alpha) /\ RLe(p.regions[i].alpha, FromInt(1))
          /\ RLe(Zero, p.regions[i].c) /\ RLe(p.regions[i].c, FromInt(1))
          /\ RLe(Zero, p.regions[i].h) /\ RLe(p.regions[i].h, FromInt(p.W))
    /\ ~SumFarFromOne(p.regions)
    /\ ~ClockBelowActiveRate(p)

\* C1: for every configuration whose scalars are positive (rho_override >= 0),
\* whose region list is non-empty with alpha, c in [0,1] and h in [0,W], whose
\* alphas sum to within 0.001 of 1.0 and whose pixel clock is at least
\* H*V*f_r, Params.validate returns the empty list.
C1_ValidConfigurationHasNoErrors ==
    (Validated /\ C1_AllInRange) => errors[1] = <<>>

\* a configuration in range whose alphas do not sum to exactly 1 was validated
C1_Witness ==
    /\ Validated /\ C1_AllInRange /\ errors[1] = <<>>
    /\ SumAlpha(p.regions) # FromInt(1)

\* the violated constraints other than the alpha sum, as the errors naming them
C2_Violations(q) ==
    {e \in {Err("W")} : q.W <= 0}
    \cup {e \in {Err("f_p")} : RLe(q.f_p_MHz, Zero)}
    \cup {e \in {Err("H")} : q.H <= 0}
    \cup {e \in {Err("V")} : q.V <= 0}
    \cup {e \in {Err("f_r")} : RLe(q.f_r, Zero)}
    \cup {e \in {Err("num_pins")} : q.num_pins <= 0}
    \cup {e \in {Err("rho_override")} : RLt(q.rho_override, Zero)}
    \cup {e \in {Err("regions")} : q.regions = <<>>}
    \cup {[field |-> "alpha", region |-> i] : i \in
            {j \in DOMAIN q.regions :
                RLt(q.regions[j].alpha, Zero) \/ RLt(FromInt(1), q.regions[j].alpha)}}
    \cup {[field |-> "c", region |-> i] : i \in
            {j \in DOMAIN q.regions :
                RLt(q.regions[j].c, Zero) \/ RLt(FromInt(1), q.regions[j].c)}}
    \cup {[field |-> "h", region |-> i] : i \in
            {j \in DOMAIN q.regions :
                RLt(q.regions[j].h, Zero) \/ RLt(FromInt(q.W), q.regions[j].h)}}
    \cup {e \in {Err("pixel_clock")} : ClockBelowActiveRate(q)}

\* every error of the set V is in the list, and the list has at least as many entries
C2_AllReported(V, errs) == V \subseteq Range(errs) /\ Len(errs) >= Cardinality(V)

\* C2 as stated: validate reports every violated constraint, each checked
\* independently of the others, the alpha sum being off by more than 0.001
\* among them; k violated constraints yield at least k errors.
C2_Original ==
    Validated =>
        C2_AllReported(C2_Violations(p)
                         \cup {e \in {Err("alpha_sum")} : SumFarFromOne(p.regions)},
                       errors[1])

\* C2 as amended: validate reports every violated constraint, the alpha sum
\* being checked only for a non-empty region list (an empty list yields the
\* one error "At least one region must be defined"); k violated constraints
\* yield at least k errors, each naming its field.
C2_AllViolationsCollected ==
    Validated =>
        C2_AllReported(C2_Violations(p)
                         \cup {e \in {Err("alpha_sum")} :
                                 p.regions # <<>> /\ SumFarFromOne(p.regions)},
                       errors[1])

\* a configuration violating scalar, alpha-sum, region and clock constraints at once
C2_Witness ==
    /\ Validated
    /\ HasErr(errors[1], "alpha_sum", 0)
    /\ HasErr(errors[1], "pixel_clock", 0)
    /\ HasErr(errors[1], "W", 0)
    /\ \E i \in DOMAIN p.regions : HasErr(errors[1], "h", i)
    /\ Len(errors[1]) >= 5

ValidateStep == pc = "api" /\ errors = None /\ errors' # None

ComputeStep == pc = "api" /\ res.status = "not called" /\ res'.status # "not called"

\* C3 as stated: if the alphas sum to more than 0.001 away from 1.0, validate
\* returns a list with the alpha-sum error, and neither validate nor compute
\* changes a region's alpha, c or h.
C3_Original ==
    [][ SumFarFromOne(p.regions) =>
          /\ ValidateStep =>
                HasErr(errors'[1], "alpha_sum", 0) /\ p'.regions = p.regions
          /\ ComputeStep => p'.regions = p.regions ]_vars

\* C3 as amended: if the alphas of a non-empty region list sum to more than
\* 0.001 away from 1.0, validate returns a list with the alpha-sum error;
\* and for every region list whose alphas sum to more than 0.001 away from
\* 1.0, neither validate nor compute changes a region's alpha, c or h.
C3_FlaggedNotNormalized ==
    [][ SumFarFromOne(p.regions) =>
          /\ ValidateStep =>
                /\ p.regions # <<>> => HasErr(errors'[1], "alpha_sum", 0)
                /\ p'.regions = p.regions
          /\ ComputeStep => p'.regions = p.regions ]_vars

\* validate and compute were both called on a configuration whose alphas sum to 2.0
C3_Witness ==
    /\ Validated /\ Computed
    /\ SumAlpha(p.regions) = FromInt(2)
    /\ HasErr(errors[1], "alpha_sum", 0)

\* C4: for every bus width W > 0, a region with h = W gets no error for h
\* from Region.validate(W), and a region with h = W + 1 gets one, so that the
\* configuration fails validation.
C4_InclusiveUpperBound ==
    (Validated /\ p.W > 0) =>
        \A i \in DOMAIN p.regions :
            /\ p.regions[i].h = FromInt(p.W) => ~HasErr(errors[1], "h", i)
            /\ p.regions[i].h = FromInt(p.W + 1) =>
                  HasErr(errors[1], "h", i) /\ errors[1] # <<>>

\* a validated configuration with one region at h = W and another at h = W + 1
C4_Witness ==
    /\ Validated /\ p.W > 0
    /\ \E i, j \in DOMAIN p.regions :
          /\ p.regions[i].h = FromInt(p.W) /\ ~HasErr(errors[1], "h", i)
          /\ p.regions[j].h = FromInt(p.W + 1) /\ HasErr(errors[1], "h", j)
RECURSIVE C5_WeightedFlips(_)
C5_WeightedFlips(rs) ==
    IF rs = <<>> THEN Zero
    ELSE RAdd(RMul(Head(rs).alpha, RMul(Head(rs).c, Head(rs).h)),
              C5_WeightedFlips(Tail(rs)))

\* W=24, 1920x1080 at 60 Hz, pixel clock 148,500,000 Hz, one region (1, 1, 12)
C5_Example ==
    /\ p.W = 24 /\ p.H = 1920 /\ p.V = 1080 /\ p.f_r = FromInt(60)
    /\ p.f_p_MHz = Dec(1485, -1)
    /\ p.regions = <<Region(FromInt(1), FromInt(1), FromInt(12))>>

ValidatedOk == Validated /\ errors[1] = <<>>

\* C5: for every validated configuration compute returns H_avg = sum of
\* alpha*c*h, active_rate = H*V*f_r, AF = H_avg/W, toggles_sec =
\* active_rate*H_avg, per_pin = toggles_sec/W and total_pins_toggles =
\* per_pin*num_pins; for the 1080p60 example it returns H_avg = 12,
\* active_rate = 124,416,000, AF = 0.5, toggles_sec = 1,492,992,000 and
\* per_pin = 62,208,000.
C5_ComputeFormulas ==
    (ValidatedOk /\ Computed) =>
        /\ res.status = "returned"
        /\ res.H_avg = C5_WeightedFlips(p.regions)
        /\ res.active_rate = RMul(RMul(FromInt(p.H), FromInt(p.V)), p.f_r)
        /\ RMul(res.AF, FromInt(p.W)) = res.H_avg
        /\ res.toggles_sec = RMul(res.active_rate, res.H_avg)
        /\ RMul(res.per_pin, FromInt(p.W)) = res.toggles_sec
        /\ res.total_pins_toggles = RMul(res.per_pin, FromInt(p.num_pins))
        /\ C5_Example =>
              /\ res.pixel_clock_hz = FromInt(148500000)
              /\ res.H_avg = FromInt(12)
              /\ res.active_rate = FromInt(124416000)
              /\ res.AF = Dec(5, -1)
              /\ res.toggles_sec = FromInt(1492992000)
              /\ res.per_pin = FromInt(62208000)

\* the 1080p60 example was validated and computed
C5_Witness == ValidatedOk /\ Computed /\ C5_Example /\ res.status = "returned"

\* C6: rho is rho_override when that is > 0 and pixel_clock_hz/active_rate
\* otherwise, and it is informational only: every validated configuration
\* that differs from this one in rho_override and the pixel clock only gets
\* the same H_avg, AF, toggles_sec, per_pin and total_pins_toggles.
C6_BlankingInformational ==
    (ValidatedOk /\ Computed) =>
        /\ res.status = "returned"
        /\ IF RLt(Zero, p.rho_override) THEN res.rho = p.rho_override
           ELSE RMul(res.rho, RMul(FromInt(p.H * p.V), p.f_r))
                    = RMul(p.f_p_MHz, Dec(1, 6))
        /\ \A f \in FpInputs, r \in RhoInputs :
              LET q == [p EXCEPT !.f_p_MHz = f, !.rho_override = r]
                  o == ActivityTool_compute(q)
              IN  Params_validate(q) = <<>> =>
                    /\ o.status = "returned"
                    /\ o.H_avg = res.H_avg
                    /\ o.AF = res.AF
                    /\ o.toggles_sec = res.toggles_sec
                    /\ o.per_pin = res.per_pin
                    /\ o.total_pins_toggles = res.total_pins_toggles

\* a validated configuration with toggles, computed with the automatic rho, for
\* which another rho_override and another pixel clock are valid as well
C6_Witness ==
    /\ ValidatedOk /\ Computed /\ res.status = "returned"
    /\ p.rho_override = Zero /\ res.rho # FromInt(1) /\ res.toggles_sec # Zero
    /\ \E f \in FpInputs, r \in RhoInputs :
          /\ f # p.f_p_MHz /\ r # p.rho_override
          /\ Params_validate([p EXCEPT !.f_p_MHz = f, !.rho_override = r]) = <<>>

\* C7: years_to_one_quadrillion returns infinity, as a value, for every
\* toggle rate <= 0, and the finite value 1e15 / toggles_per_sec /
\* 31,536,000 for every positive toggle rate.
C7_YearsToOneQuadrillion ==
    (pc = "lifetime" /\ years_to_1q # None) =>
        IF RLe(rate, Zero) THEN years_to_1q[1] = Inf
        ELSE /\ ~IsInf(years_to_1q[1])
             /\ RMul(RMul(years_to_1q[1], rate), FromInt(31536000)) = Dec(1, 15)

\* the helper was called on the toggle rate 0
C7_Witness ==
    pc = "lifetime" /\ years_to_1q # None /\ rate = Zero /\ IsInf(years_to_1q[1])

\* the year counts asked for
C8_Years == IF years_list = None THEN <<1, 5, 10, 25, 50, 75, 100>> ELSE years_list[1]

\* C8: lifetime_quadrillions has exactly one entry per requested year count,
\* the entry of y being toggles_per_sec * 31,536,000 * y / 1e15, so that the
\* value at y = 10 is 10 times the value at y = 1.
C8_LifetimeLinear ==
    (pc = "lifetime" /\ life # None) =>
        /\ DOMAIN life[1] = Range(C8_Years)
        /\ \A y \in DOMAIN life[1] :
              RMul(life[1][y], Dec(1, 15))
                  = RMul(RMul(rate, FromInt(31536000)), FromInt(y))
        /\ ({1, 10} \subseteq DOMAIN life[1]) =>
              life[1][10] = RMul(FromInt(10), life[1][1])

\* the table was computed for a positive rate and years including 1 and 10
C8_Witness ==
    /\ pc = "lifetime" /\ life # None /\ RLt(Zero, rate)
    /\ {1, 10} \subseteq DOMAIN life[1]
    /\ life[1][1] # Zero

\* C9: in the run of main, compute and print_results are called only after
\* validate returned the empty list for the constructed configuration; if
\* the alphas of the regions sum to <= 0 or validate returns an error, the
\* run ends with exit status 1 and compute is never called.
C9_ValidateBeforeCompute ==
    /\ \A i \in DOMAIN calls :
          calls[i] \in {"compute", "print_results"} =>
              /\ \E j \in 1..(i - 1) : calls[j] = "validate"
              /\ errors = Some(<<>>)
    /\ (regions # None /\ pc # "normalize" /\ RLe(SumAlpha(regions[1]), Zero)) =>
          pc = "exited" /\ exit_status = 1 /\ calls = <<>>
    /\ (errors # None /\ errors[1] # <<>>) =>
          pc = "exited" /\ exit_status = 1 /\ calls = <<"validate">>

\* a run that validate's errors ended with exit status 1
C9_Witness ==
    /\ pc = "exited" /\ exit_status = 1
    /\ errors # None /\ errors[1] # <<>>
    /\ calls = <<"validate">>

\* C10: for every configuration validate accepts, compute divides by no
\* zero: W > 0 and active_rate = H*V*f_r > 0, and with rho_override = 0 the
\* computed rho = pixel_clock_hz/active_rate is >= 1.
C10_NoDivisionByZero ==
    (ValidatedOk /\ Computed) =>
        /\ res.status = "returned"
        /\ p.W > 0
        /\ RLt(Zero, RMul(FromInt(p.H * p.V), p.f_r))
        /\ p.rho_override = Zero => RLe(FromInt(1), res.rho)

\* compute ran on a validated configuration whose pixel clock equals the active rate
C10_Witness ==
    /\ ValidatedOk /\ Computed /\ res.status = "returned"
    /\ p.rho_override = Zero /\ res.rho = FromInt(1)

\* C11: for every configuration for which validate returns an empty list, the
\* activity factor compute returns is a fraction: 0 <= H_avg <= W, hence
\* 0 <= AF <= 1, and per_pin <= active_rate.
C11_ActivityFactorIsFraction ==
    (ValidatedOk /\ Computed /\ res.status = "returned") =>
        /\ RLe(Zero, res.H_avg) /\ RLe(res.H_avg, FromInt(p.W))
        /\ RLe(Zero, res.AF) /\ RLe(res.AF, FromInt(1))
        /\ RLe(res.per_pin, res.active_rate)

====
